---- MODULE Spec2Model ----
(***************************************************************************)
(* google/cloud/spanner_v1/_opentelemetry_tracing.py as a state machine:   *)
(* the module-level flags fixed at import, the attribute builder, the two  *)
(* span lifecycle wrappers (trace_call, trace_call_end_lazily) and the     *)
(* status/event helpers, over spans that live in tracer providers.         *)
(***************************************************************************)
EXTENDS Integers, Sequences, FiniteSets, TLC

\* ------------------------------------------------------------------ bounds
\* Spans one run may start.
MaxSpans == 2

\* --------------------------------------------------------------- variables
VARIABLES
    HAS_OPENTELEMETRY_INSTALLED,          \* the capability flag, set at import
    bound,                                \* names the try-block's imports bound
    environ,                              \* SPANNER_ENABLE_EXTENDED_TRACING's value
    extended_tracing_globally_disabled,   \* the environment toggle, read at import
    spans,                                \* the spans started so far, by id
    current,                              \* the active span (0: none)
    finished,                             \* per provider, the spans it exported
    last                                  \* the last call: what it did, gave, raised

vars == <<HAS_OPENTELEMETRY_INSTALLED, bound, environ,
          extended_tracing_globally_disabled, spans, current, finished, last>>

\* ------------------------------------------------------- python primitives
\* A Python dict is a function from its keys; None and non-dict objects
\* (a mock.Mock) are told apart by "kind".
EmptyDict == [k \in {} |-> ""]
PyNone == [kind |-> "None", items |-> EmptyDict]
PyMock == [kind |-> "Mock", items |-> EmptyDict]
PyDict(d) == [kind |-> "dict", items |-> d]

\* dict.get(key, default)
DictGet(d, key, default) == IF key \in DOMAIN d THEN d[key] ELSE default

\* dict.update(other): other's entries win
DictUpdate(d, other) ==
    [k \in (DOMAIN d) \cup (DOMAIN other) |->
        IF k \in DOMAIN other THEN other[k] ELSE d[k]]

\* dict.pop(key, False): the entry is removed when present
DictPop(d, key) == [k \in (DOMAIN d) \ {key} |-> d[k]]

\* truth value of a string attribute value, and of a dict-or-None argument
Truthy(v) == v # ""
TruthyArg(a) == a.kind = "Mock" \/ (a.kind = "dict" /\ DOMAIN a.items # {})

\* str.lower(), character by character
LowerChar(c) ==
    CASE c = "F" -> "f"
      [] c = "A" -> "a"
      [] c = "L" -> "l"
      [] c = "S" -> "s"
      [] c = "E" -> "e"
      [] c = "T" -> "t"
      [] c = "R" -> "r"
      [] c = "U" -> "u"
      [] OTHER -> c
Lower(s) == [i \in DOMAIN s |-> LowerChar(s[i])]

\* ------------------------------------------------------ module-level values
TRACER_NAME == "cloud.google.com/python/spanner"
TRACER_VERSION == "gapic_version.__version__"
DEFAULT_ENDPOINT == "spanner.googleapis.com"
OTEL_SCOPE_NAME == "otel.scope.name"
OTEL_SCOPE_VERSION == "otel.scope.version"

\* Values SPANNER_ENABLE_EXTENDED_TRACING may hold when the module is loaded;
\* <<>> is the getenv default "" of an unset variable.
EnvValues ==
    { <<>>,
      <<"f", "a", "l", "s", "e">>,
      <<"F", "a", "l", "s", "e">>,
      <<"F", "A", "L", "S", "E">>,
      <<"t", "r", "u", "e">>,
      <<"f", "a", "l", "s">>,
      <<"0">> }

\* os.getenv("SPANNER_ENABLE_EXTENDED_TRACING", "").lower() == "false"
EnvDisables(env) == Lower(env) = <<"f", "a", "l", "s", "e">>

\* The try-block imports three modules in order; the first ImportError leaves
\* the names of the later imports unbound and the flag False.
ImportOutcomes ==
    { [flag |-> TRUE,  names |-> {"trace", "Status", "StatusCode", "OTEL_SCOPE_NAME"}],
      [flag |-> FALSE, names |-> {}],
      [flag |-> FALSE, names |-> {"trace"}],
      [flag |-> FALSE, names |-> {"trace", "Status", "StatusCode"}] }

\* ---------------------------------------------------------------- providers
GLOBAL_PROVIDER == "global"
INJECTED_PROVIDER == "injected"
NoProvider == "None"
Providers == {GLOBAL_PROVIDER, INJECTED_PROVIDER}

\* trace.get_tracer_provider()
get_tracer_provider == GLOBAL_PROVIDER

get_tracer_mut_global(tracer_provider) ==
    [provider |-> get_tracer_provider, name |-> TRACER_NAME, version |-> TRACER_VERSION]

\* get_tracer: the tracer of the given provider, of the global one when none
\* is given
get_tracer(tracer_provider) ==
    [provider |-> IF tracer_provider = NoProvider
                  THEN get_tracer_provider
                  ELSE tracer_provider,
     name |-> TRACER_NAME,
     version |-> TRACER_VERSION]

NoTracer == [provider |-> NoProvider, name |-> "", version |-> ""]

\* --------------------------------------------------------- attribute builder
\* session: None, a session without a database, a session of database "db1"
NoSession == [present |-> FALSE, database |-> "None"]
Sessions ==
    { NoSession,
      [present |-> TRUE, database |-> "None"],
      [present |-> TRUE, database |-> "db1"] }

SessionDbName(session) ==
    IF session.present /\ session.database # "None" THEN session.database ELSE ""

BaseAttributes(db_name) ==
    [k \in {"db.type", "db.url", "db.instance", "net.host.name",
            OTEL_SCOPE_NAME, OTEL_SCOPE_VERSION} |->
        CASE k = "db.type" -> "spanner"
          [] k = "db.url" -> DEFAULT_ENDPOINT
          [] k = "db.instance" -> db_name
          [] k = "net.host.name" -> DEFAULT_ENDPOINT
          [] k = OTEL_SCOPE_NAME -> TRACER_NAME
          [] OTHER -> TRACER_VERSION]

Redact_mut_keep_sql(attributes) == DictPop(attributes, "db.statement")

\* extended tracing off: both SQL-text keys are popped
Redact(attributes) == DictPop(DictPop(attributes, "db.statement"), "sql")

Normalize_mut_keep_sql(attributes) ==
    LET db_statement == DictGet(attributes, "db.statement", "")
        sql == DictGet(attributes, "sql", "")
    IN  IF ~Truthy(db_statement) /\ Truthy(sql)
        THEN [k \in (DOMAIN attributes) \cup {"db.statement"} |->
                 IF k = "db.statement" THEN sql ELSE attributes[k]]
        ELSE attributes

\* extended tracing on: a "sql" entry becomes "db.statement" when there is no
\* (non-empty) "db.statement" already
Normalize(attributes) ==
    LET db_statement == DictGet(attributes, "db.statement", "")
        sql == DictGet(attributes, "sql", "")
    IN  IF ~Truthy(db_statement) /\ Truthy(sql)
        THEN LET popped == DictPop(attributes, "sql")
             IN  [k \in (DOMAIN popped) \cup {"db.statement"} |->
                     IF k = "db.statement" THEN sql ELSE popped[k]]
        ELSE attributes

EffectiveExtended_mut_config_wins(configured) == configured

\* the process-wide toggle forces the configured value to False
EffectiveExtended(configured) ==
    IF extended_tracing_globally_disabled THEN FALSE ELSE configured

_make_tracer_and_span_attributes(session, extra_attributes, observability_options) ==
    IF ~HAS_OPENTELEMETRY_INSTALLED
    THEN [tracer |-> NoTracer, none |-> TRUE, attributes |-> EmptyDict]
    ELSE
      LET isdict == observability_options.kind = "dict"
          opts == observability_options.items
          tracer_provider ==
              IF isdict THEN DictGet(opts, "tracer_provider", NoProvider) ELSE NoProvider
          configured ==
              IF isdict THEN DictGet(opts, "enable_extended_tracing", TRUE) ELSE TRUE
          db_name ==
              IF isdict
              THEN DictGet(opts, "db_name", SessionDbName(session))
              ELSE SessionDbName(session)
          base == BaseAttributes(db_name)
          merged ==
              IF TruthyArg(extra_attributes)
              THEN DictUpdate(base, extra_attributes.items)
              ELSE base
          enable_extended_tracing == EffectiveExtended(configured)
      IN  [tracer |-> get_tracer(tracer_provider),
           none |-> FALSE,
           attributes |-> IF ~enable_extended_tracing
                          THEN Redact(merged)
                          ELSE Normalize(merged)]

\* ------------------------------------------------------------ SDK objects
\* Errors the wrapped work may raise: one of class Exception and one that is
\* a BaseException only, as KeyboardInterrupt is.
NoError == [id |-> 0, cls |-> "", msg |-> ""]
Errors ==
    { [id |-> 1, cls |-> "Exception", msg |-> "Our error exhibit"],
      [id |-> 2, cls |-> "BaseException", msg |-> "interrupted"] }

\* str(error)
Str(error) == error.msg

\* Status(StatusCode.X, description)
Status(status_code, description) ==
    [status_code |-> status_code, description |-> description]
StatusUnset == Status("UNSET", "")
StatusOk == Status("OK", "")

\* Span.set_status as trace_call's comment states it: the status changes
\* only when the current code is UNSET or ERROR.
SetStatus(status, new) ==
    IF status.status_code \in {"UNSET", "ERROR"} THEN new ELSE status

\* Span handles: None, the non-recording span that stands for "no span"
\* (a span object of no provider), and the ids of the spans started.
NoSpan == -1
INVALID_SPAN == 0
SpanIds == 1..Len(spans)

\* the record of one call of this module: what it returned ("ret": the kind
\* of value, "span": the span it is about), what it raised ("raised", and
\* "exc": the error that left it), which calls it made on the SDK's span, the
\* error it was given ("input"), and, for the wrappers and the attribute
\* builder, the arguments and the builder's result.
NoArgs == [name |-> "", session |-> NoSession, extra_attributes |-> PyNone,
           observability_options |-> PyNone]
NoMade == [tracer |-> NoTracer, none |-> TRUE, attributes |-> EmptyDict]
Call(op, ret, span, raised, exc, calls) ==
    [op |-> op, ret |-> ret, span |-> span, raised |-> raised, exc |-> exc,
     calls |-> calls, input |-> 0, args |-> NoArgs, made |-> NoMade]
\* the record of a wrapper's call, with the arguments it was given
Started(op, ret, span, name, args) ==
    [Call(op, ret, span, "", 0, <<>>) EXCEPT !.args = [args EXCEPT !.name = name]]
SdkCall(m, status, exc) == [m |-> m, status |-> status, exc |-> exc]

\* ----------------------------------------------------------------- Init
\* The state once the module is imported: the flags are fixed, no span exists.
Loaded(envs) ==
    /\ \E imp \in ImportOutcomes :
          /\ HAS_OPENTELEMETRY_INSTALLED = imp.flag
          /\ bound = imp.names
    /\ environ \in envs
    /\ extended_tracing_globally_disabled = EnvDisables(environ)
    /\ spans = <<>>
    /\ current = INVALID_SPAN
    /\ finished = [p \in Providers |-> <<>>]

Init ==
    /\ Loaded({<<>>})
    /\ last = Call("import", "None", NoSpan, "", 0, <<>>)

\* ------------------------------------------------- the attribute builder run
SqlValues == {"", "SELECT 1", "SELECT 2"}

\* every dict over a subset of `keys`, the values of key k drawn from vals[k]
DictsOver(keys, vals) ==
    UNION { {d \in [ks -> UNION {vals[k] : k \in ks}] : \A k \in ks : d[k] \in vals[k]} :
            ks \in SUBSET keys }

ExtraValues ==
    [k \in {"sql", "db.statement", "db.instance"} |->
        IF k = "db.instance" THEN {"extra-instance"} ELSE SqlValues]
ExtraAttributes ==
    {PyNone} \cup {PyDict(d) : d \in DictsOver(DOMAIN ExtraValues, ExtraValues)}

ProviderOptions ==
    {PyDict(d) : d \in DictsOver({"tracer_provider"},
                                 [k \in {"tracer_provider"} |->
                                     {NoProvider, INJECTED_PROVIDER}])}
\* observability_options: None, a mock, or a dict of the three optional keys
ObservabilityOptions ==
    {PyNone, PyMock} \cup
    { PyDict(DictUpdate(DictUpdate(p.items, e), n)) :
        p \in ProviderOptions,
        e \in DictsOver({"enable_extended_tracing"},
                        [k \in {"enable_extended_tracing"} |-> BOOLEAN]),
        n \in DictsOver({"db_name"}, [k \in {"db_name"} |-> {"db2"}]) }

\* a caller about to call _make_tracer_and_span_attributes with some arguments
InitAttrs ==
    /\ Loaded(EnvValues)
    /\ \E session \in Sessions, extra_attributes \in ExtraAttributes,
          observability_options \in ObservabilityOptions :
          last = [Call("call", "None", NoSpan, "", 0, <<>>)
                    EXCEPT !.args = [name |-> "",
                                     session |-> session,
                                     extra_attributes |-> extra_attributes,
                                     observability_options |-> observability_options]]

\* the call of _make_tracer_and_span_attributes
MakeAttributes ==
    /\ last.op = "call"
    /\ last' = [last EXCEPT
                  !.op = "_make_tracer_and_span_attributes",
                  !.ret = "pair",
                  !.made = _make_tracer_and_span_attributes(
                               last.args.session, last.args.extra_attributes,
                               last.args.observability_options)]
    /\ UNCHANGED <<HAS_OPENTELEMETRY_INSTALLED, bound, environ,
                   extended_tracing_globally_disabled, spans, current, finished>>

\* the process changes the environment variable after the module is loaded;
\* the toggle was read at import and is not read again
Putenv(value) ==
    /\ last.op = "call"
    /\ value # environ
    /\ environ' = value
    /\ UNCHANGED <<HAS_OPENTELEMETRY_INSTALLED, bound,
                   extended_tracing_globally_disabled, spans, current, finished, last>>

NextAttrs ==
    \/ MakeAttributes
    \/ \E value \in EnvValues : Putenv(value)

SpecAttrs == InitAttrs /\ [][NextAttrs]_vars

\* ------------------------------------------------------------ the SDK's span
\* tracer.start_span(name, kind=CLIENT, attributes=...) on the tracer's
\* provider; the span is then made the active one (start_as_current_span,
\* or use_span(...).__enter__()), and remembers the span that was active.
\* "requested" keeps the tracer_provider the caller configured.
NewSpan(name, wrapper, made, observability_options) ==
    [name |-> name,
     wrapper |-> wrapper,
     kind |-> "CLIENT",
     requested |-> IF observability_options.kind = "dict"
                   THEN DictGet(observability_options.items, "tracer_provider", NoProvider)
                   ELSE NoProvider,
     provider |-> made.tracer.provider,
     attributes |-> made.attributes,
     status |-> StatusUnset,
     ended |-> FALSE,
     attached |-> TRUE,
     prev |-> current]

ScopeExit_mut_keep_open(sp, exc) == [sp EXCEPT !.attached = FALSE]

\* the scope's __exit__ (end_on_exit=True): the scope is detached and the
\* span ended. Of a span the model follows what this module reads and sets,
\* its status: the events the SDK keeps (those this module adds, and the
\* exception the SDK records itself when one leaves the scope) and a status
\* the SDK may set on its own at that point are the SDK's.
ScopeExit(sp, exc) == [sp EXCEPT !.attached = FALSE, !.ended = TRUE]

\* on_end: a provider's span processor exports the spans that end on it
Export(s) ==
    IF spans'[s].ended
    THEN finished' = [finished EXCEPT ![spans[s].provider] = Append(@, s)]
    ELSE UNCHANGED finished

Flags == <<HAS_OPENTELEMETRY_INSTALLED, bound, environ, extended_tracing_globally_disabled>>

\* ----------------------------------------------------------------- trace_call
SpanNames == {"", "VerifyBehavior"}
\* the arguments the wrappers are called with in the lifecycle run
WrapperSessions == {NoSession}
WrapperExtras == {PyNone}
WrapperOptions == {PyNone}
\* and in the run of the two kinds of client, with and without a provider
ProviderRunOptions ==
    { PyNone, PyDict([k \in {"tracer_provider"} |-> INJECTED_PROVIDER]) }

\* trace_call up to its yield: the span handed to the with-block
TraceCallEnter(name, session, extra_attributes, observability_options) ==
    LET made == _make_tracer_and_span_attributes(
                    session, extra_attributes, observability_options)
        args == [name |-> name, session |-> session,
                 extra_attributes |-> extra_attributes,
                 observability_options |-> observability_options]
    IN  IF name = "" \/ made.none
        THEN /\ last' = Started("trace_call", "None", NoSpan, name, args)
             /\ UNCHANGED <<Flags, spans, current, finished>>
        ELSE /\ Len(spans) < MaxSpans
             /\ spans' = Append(spans, NewSpan(name, "trace_call", made, observability_options))
             /\ current' = Len(spans) + 1
             /\ last' = Started("trace_call", "span", Len(spans) + 1, name, args)
             /\ UNCHANGED <<Flags, finished>>

\* a with-block can be left only when the with-blocks entered inside it are
BlockOpen(s) ==
    /\ s \in SpanIds
    /\ spans[s].wrapper = "trace_call"
    /\ spans[s].attached
Innermost(s) ==
    /\ BlockOpen(s)
    /\ \A t \in SpanIds : BlockOpen(t) => t <= s

\* the effect of a sequence of SDK calls on a span
RECURSIVE ApplyCalls(_, _)
ApplyCalls(sp, calls) ==
    IF calls = <<>>
    THEN sp
    ELSE LET c == Head(calls)
             next == IF c.m = "set_status"
                     THEN [sp EXCEPT !.status = SetStatus(@, c.status)]
                     ELSE sp
         IN  ApplyCalls(next, Tail(calls))

ElseCalls_mut_always_ok(status) == <<SdkCall("set_status", StatusOk, 0)>>

\* trace_call's else branch: set_status(OK) only when the status is still UNSET
ElseCalls(status) ==
    IF status.status_code = "UNSET" THEN <<SdkCall("set_status", StatusOk, 0)>> ELSE <<>>

\* the with-block ends without raising
TraceCallExit(s) ==
    /\ Innermost(s)
    /\ LET calls == ElseCalls(spans[s].status)
       IN  /\ spans' = [spans EXCEPT ![s] = ScopeExit(ApplyCalls(@, calls), NoError)]
           /\ last' = Call("trace_call.exit", "None", s, "", 0, calls)
    /\ current' = spans[s].prev
    /\ Export(s)
    /\ UNCHANGED Flags

ExceptCalls_mut_record_too(error) ==
    IF error.cls = "Exception"
    THEN <<SdkCall("set_status", Status("ERROR", Str(error)), 0),
           SdkCall("record_exception", StatusUnset, error.id)>>
    ELSE <<>>

\* trace_call's except branch ("except Exception as error"): the calls it
\* makes on the span
ExceptCalls(error) ==
    IF error.cls = "Exception"
    THEN <<SdkCall("set_status", Status("ERROR", Str(error)), 0)>>
    ELSE <<>>

\* the bare "raise": the error that leaves trace_call
Reraise(error) == error.id

\* the with-block raises `error`
TraceCallRaise(s, error) ==
    /\ Innermost(s)
    /\ LET calls == ExceptCalls(error)
           sp == ApplyCalls(spans[s], calls)
       IN  /\ spans' = [spans EXCEPT ![s] = ScopeExit(sp, error)]
           /\ last' = [Call("trace_call.exit", "None", s, "propagated",
                            Reraise(error), calls) EXCEPT !.input = error.id]
    /\ current' = spans[s].prev
    /\ Export(s)
    /\ UNCHANGED Flags

\* ------------------------------------------------------ trace_call_end_lazily
TraceCallEndLazily(name, session, extra_attributes, observability_options) ==
    LET made == _make_tracer_and_span_attributes(
                    session, extra_attributes, observability_options)
        args == [name |-> name, session |-> session,
                 extra_attributes |-> extra_attributes,
                 observability_options |-> observability_options]
    IN  IF name = "" \/ made.none
        THEN /\ last' = Started("trace_call_end_lazily", "None", NoSpan, name, args)
             /\ UNCHANGED <<Flags, spans, current, finished>>
        ELSE /\ Len(spans) < MaxSpans
             /\ spans' = Append(spans, NewSpan(name, "trace_call_end_lazily", made,
                                             observability_options))
             /\ current' = Len(spans) + 1
             /\ last' = Started("trace_call_end_lazily", "discard", Len(spans) + 1,
                                name, args)
             /\ UNCHANGED <<Flags, finished>>

\* the finalizer is still to be invoked
Pending(s) ==
    /\ s \in SpanIds
    /\ spans[s].wrapper = "trace_call_end_lazily"
    /\ spans[s].attached

\* discard's calls on the span before it leaves the scope
DiscardCalls(exc) ==
    IF exc = NoError THEN <<SdkCall("set_status", StatusOk, 0)>> ELSE <<>>

\* discard(exc_type, exc_value, exc_traceback), invoked once by the caller
Discard(s, exc) ==
    /\ Pending(s)
    /\ LET calls == DiscardCalls(exc)
           sp == ApplyCalls(spans[s], calls)
       IN  /\ spans' = [spans EXCEPT ![s] = ScopeExit(sp, exc)]
           /\ last' = [Call("discard", "None", s, "", 0, calls) EXCEPT !.input = exc.id]
    /\ current' = spans[s].prev
    /\ Export(s)
    /\ UNCHANGED Flags

\* -------------------------------------------------------- status/event helpers
\* The span arguments a caller passes: None, a span object that records
\* nothing (what get_current_span gives when no span is active; any span
\* object of the caller's when the tracing capability is absent), or a span
\* that has not ended.
Handles == {NoSpan, INVALID_SPAN} \cup {s \in SpanIds : ~spans[s].ended}

\* "if span:"
TruthyHandle(h) == h # NoSpan

\* A helper's calls reach the span it is given; a name the failed imports left
\* unbound raises NameError where it is evaluated, before the call is made.
Helper(op, h, needs, calls) ==
    IF ~TruthyHandle(h)
    THEN /\ last' = Call(op, "None", NoSpan, "", 0, <<>>)
         /\ UNCHANGED <<Flags, spans, current, finished>>
    ELSE IF ~(needs \subseteq bound)
    THEN /\ last' = Call(op, "None", NoSpan, "NameError", 0, <<>>)
         /\ UNCHANGED <<Flags, spans, current, finished>>
    ELSE /\ last' = Call(op, "None", NoSpan, "", 0, calls)
         /\ spans' = IF h \in SpanIds
                     THEN [spans EXCEPT ![h] = ApplyCalls(@, calls)]
                     ELSE spans
         /\ UNCHANGED <<Flags, current, finished>>

\* the errors the caller hands to the helpers
HelperErrors == {e \in Errors : e.id = 1}

set_span_status_error(span, error) ==
    Helper("set_span_status_error", span, {"Status", "StatusCode"},
           <<SdkCall("set_status", Status("ERROR", Str(error)), 0)>>)

set_span_status_ok(span) ==
    Helper("set_span_status_ok", span, {"Status", "StatusCode"},
           <<SdkCall("set_status", StatusOk, 0)>>)

record_span_exception_and_status(span, exc) ==
    Helper("record_span_exception_and_status", span, {"Status", "StatusCode"},
           <<SdkCall("set_status", Status("ERROR", Str(exc)), 0),
             SdkCall("record_exception", StatusUnset, exc.id)>>)

add_span_event(span) ==
    Helper("add_span_event", span, {}, <<SdkCall("add_event", StatusUnset, 0)>>)

\* the active span, None without the tracing capability
CurrentSpan == IF ~HAS_OPENTELEMETRY_INSTALLED THEN NoSpan ELSE current

get_current_span ==
    /\ last' = Call("get_current_span",
                    IF CurrentSpan = NoSpan THEN "None" ELSE "span",
                    CurrentSpan, "", 0, <<>>)
    /\ UNCHANGED <<Flags, spans, current, finished>>

add_event_on_current_span(span) ==
    LET target == IF ~TruthyHandle(span) THEN CurrentSpan ELSE span
    IN  /\ target \in Handles
        /\ Helper("add_event_on_current_span", target, {},
                  <<SdkCall("add_event", StatusUnset, 0)>>)

\* the public get_tracer: without a provider it asks the trace module for the
\* global one
GetTracer(tracer_provider) ==
    /\ IF tracer_provider = NoProvider /\ "trace" \notin bound
       THEN last' = Call("get_tracer", "None", NoSpan, "NameError", 0, <<>>)
       ELSE last' = [Call("get_tracer", "tracer", NoSpan, "", 0, <<>>)
                       EXCEPT !.made = [NoMade EXCEPT
                                          !.tracer = get_tracer(tracer_provider)]]
    /\ UNCHANGED <<Flags, spans, current, finished>>

\* ----------------------------------------------------------------- Next
Next ==
    \/ \E name \in SpanNames, session \in WrapperSessions,
          extra_attributes \in WrapperExtras,
          observability_options \in WrapperOptions :
          TraceCallEnter(name, session, extra_attributes, observability_options)
    \/ \E name \in SpanNames, session \in WrapperSessions,
          extra_attributes \in WrapperExtras,
          observability_options \in WrapperOptions :
          TraceCallEndLazily(name, session, extra_attributes, observability_options)
    \/ \E s \in SpanIds : TraceCallExit(s)
    \/ \E s \in SpanIds, error \in Errors : TraceCallRaise(s, error)
    \/ \E s \in SpanIds, exc \in HelperErrors \cup {NoError} : Discard(s, exc)
    \/ \E span \in Handles, error \in HelperErrors : set_span_status_error(span, error)
    \/ \E span \in Handles : set_span_status_ok(span)
    \/ \E span \in Handles, exc \in HelperErrors :
          record_span_exception_and_status(span, exc)
    \/ \E span \in Handles : add_span_event(span)
    \/ \E span \in Handles : add_event_on_current_span(span)
    \/ get_current_span
    \/ \E tracer_provider \in {NoProvider, INJECTED_PROVIDER} : GetTracer(tracer_provider)

Spec == Init /\ [][Next]_vars

\* the wrappers alone, called by clients with and without an injected provider
NextProviders ==
    \/ \E name \in SpanNames, session \in WrapperSessions,
          extra_attributes \in WrapperExtras,
          observability_options \in ProviderRunOptions :
          TraceCallEnter(name, session, extra_attributes, observability_options)
    \/ \E name \in SpanNames, session \in WrapperSessions,
          extra_attributes \in WrapperExtras,
          observability_options \in ProviderRunOptions :
          TraceCallEndLazily(name, session, extra_attributes, observability_options)
    \/ \E s \in SpanIds : TraceCallExit(s)
    \/ \E s \in SpanIds, error \in Errors : TraceCallRaise(s, error)
    \/ \E s \in SpanIds, exc \in HelperErrors \cup {NoError} : Discard(s, exc)

SpecProviders == Init /\ [][NextProviders]_vars

\* ===================================================================== claims
\* ------------------------------------------------- the attribute builder
Built == last.op = "_make_tracer_and_span_attributes"
BuiltExtras == last.args.extra_attributes
BuiltOptions == last.args.observability_options
BuiltAttributes == last.made.attributes
SqlKeys == {"sql", "db.statement"}
\* the per-call configuration sets enable_extended_tracing to `value`
ConfiguredExtended(value) ==
    /\ BuiltOptions.kind = "dict"
    /\ "enable_extended_tracing" \in DOMAIN BuiltOptions.items
    /\ BuiltOptions.items["enable_extended_tracing"] = value
\* the per-call value that decides when the toggle is off: the configured
\* one, True by default
PerCallExtended ==
    IF BuiltOptions.kind = "dict"
    THEN DictGet(BuiltOptions.items, "enable_extended_tracing", TRUE)
    ELSE TRUE
ExtrasHave(key) ==
    BuiltExtras.kind = "dict" /\ key \in DOMAIN BuiltExtras.items

\* C2: with enable_extended_tracing=False in the configuration, whatever the
\* session and the extra attributes, the attribute map returned holds neither
\* "sql" nor "db.statement".
C2_DisabledDropsSqlText ==
    (Built /\ ConfiguredExtended(FALSE)) => (DOMAIN BuiltAttributes) \cap SqlKeys = {}

\* C2's case: a map is built, the toggle is off, the configuration says False
\* and the extras carry SQL text under both keys.
C2_Witness ==
    /\ Built
    /\ ~last.made.none
    /\ ~extended_tracing_globally_disabled
    /\ ConfiguredExtended(FALSE)
    /\ ExtrasHave("sql") /\ BuiltExtras.items["sql"] = "SELECT 1"
    /\ ExtrasHave("db.statement") /\ BuiltExtras.items["db.statement"] = "SELECT 2"
    /\ last.args.session.present
    /\ BuiltAttributes["db.type"] = "spanner"

\* C3 as claimed: with enable_extended_tracing=True, the toggle off and extras
\* that contain "sql", the map returned holds "db.statement" equal to that
\* "sql" value and no "sql" key.
C3_AsClaimed ==
    (/\ Built
     /\ ~last.made.none
     /\ ~extended_tracing_globally_disabled
     /\ ConfiguredExtended(TRUE)
     /\ ExtrasHave("sql"))
    => /\ "db.statement" \in DOMAIN BuiltAttributes
       /\ BuiltAttributes["db.statement"] = BuiltExtras.items["sql"]
       /\ "sql" \notin DOMAIN BuiltAttributes

\* C3, amended: the same, for extras whose "sql" value is not empty and that
\* bring no non-empty "db.statement" of their own.
C3_PromotesSql ==
    (/\ Built
     /\ ~last.made.none
     /\ ~extended_tracing_globally_disabled
     /\ ConfiguredExtended(TRUE)
     /\ ExtrasHave("sql")
     /\ BuiltExtras.items["sql"] # ""
     /\ DictGet(BuiltExtras.items, "db.statement", "") = "")
    => /\ "db.statement" \in DOMAIN BuiltAttributes
       /\ BuiltAttributes["db.statement"] = BuiltExtras.items["sql"]
       /\ "sql" \notin DOMAIN BuiltAttributes

\* C3's case: extended tracing on, extras with "sql" alone, and the map built
\* from them carries the statement.
C3_Witness ==
    /\ Built
    /\ ~last.made.none
    /\ ~extended_tracing_globally_disabled
    /\ ConfiguredExtended(TRUE)
    /\ ExtrasHave("sql") /\ BuiltExtras.items["sql"] = "SELECT 1"
    /\ ~ExtrasHave("db.statement")
    /\ "db.statement" \in DOMAIN BuiltAttributes
    /\ BuiltAttributes["db.statement"] = "SELECT 1"

\* SPANNER_ENABLE_EXTENDED_TRACING equals "false", whatever the case of its
\* letters
EnvIsFalse(env) ==
    /\ Len(env) = 5
    /\ \A i \in 1..5 :
          env[i] \in {<<"f", "a", "l", "s", "e">>[i], <<"F", "A", "L", "S", "E">>[i]}

\* what the toggle and the per-call value decide about a built map
ToggleDecides ==
    (Built /\ ~last.made.none) =>
        /\ extended_tracing_globally_disabled
              => (DOMAIN BuiltAttributes) \cap SqlKeys = {}
        /\ ~extended_tracing_globally_disabled
              => (((DOMAIN BuiltAttributes) \cap SqlKeys # {})
                    <=> (PerCallExtended /\ (ExtrasHave("sql") \/ ExtrasHave("db.statement"))))

\* C6: the toggle is on exactly when the variable equals "false" in any case
\* at load, it does not change afterwards, and it wins over the per-call
\* configuration: with the toggle on no built map holds "sql" or
\* "db.statement", even for enable_extended_tracing=True; with it off the
\* per-call value (default True) alone decides whether SQL text is kept.
C6_ToggleWins ==
    /\ extended_tracing_globally_disabled <=> EnvIsFalse(environ)
    /\ [][extended_tracing_globally_disabled' = extended_tracing_globally_disabled]_vars
    /\ []ToggleDecides

\* C6's case: the toggle is on, the configuration says True, the extras carry
\* a statement, the environment variable has since been changed, and the map
\* is built without it.
C6_Witness ==
    /\ Built
    /\ ~last.made.none
    /\ extended_tracing_globally_disabled
    /\ ~EnvIsFalse(environ)
    /\ ConfiguredExtended(TRUE)
    /\ ExtrasHave("sql") /\ BuiltExtras.items["sql"] = "SELECT 1"
    /\ (DOMAIN BuiltAttributes) \cap SqlKeys = {}

\* ---------------------------------------------------------- the providers
\* the provider a call's configuration asks for
ProviderAskedFor(sp) ==
    IF sp.requested = NoProvider THEN GLOBAL_PROVIDER ELSE sp.requested
Exported(p) == {finished[p][i] : i \in DOMAIN finished[p]}

\* C4: a span started with an injected tracer_provider is created on that
\* provider and exported by it alone, never by the global provider; a span
\* started without one is created on the global provider and exported by it
\* alone; in every interleaving of the two kinds of call.
C4_ProvidersIsolated ==
    /\ \A s \in SpanIds :
          /\ spans[s].provider = ProviderAskedFor(spans[s])
          /\ spans[s].ended => s \in Exported(ProviderAskedFor(spans[s]))
    /\ \A p \in Providers : \A s \in Exported(p) :
          /\ spans[s].ended
          /\ ProviderAskedFor(spans[s]) = p

\* C4's case: calls of both kinds interleaved, one span of each finished while
\* the other's was open.
C4_Witness ==
    \E s, u \in SpanIds :
        /\ s < u
        /\ spans[s].requested = INJECTED_PROVIDER
        /\ spans[u].requested = NoProvider
        /\ spans[u].prev = s
        /\ Exported(INJECTED_PROVIDER) = {s}
        /\ Exported(GLOBAL_PROVIDER) = {u}

\* --------------------------------------------------------- the wrappers
\* the step just taken is the normal end of span s's with-block
NormalExitOf(s) ==
    last'.op = "trace_call.exit" /\ last'.raised = "" /\ last'.span = s
\* ... is the end of span s's with-block by an error
RaisedExitOf(s) ==
    last'.op = "trace_call.exit" /\ last'.raised = "propagated" /\ last'.span = s
\* ... is the call of span s's finalizer
DiscardOf(s) == last'.op = "discard" /\ last'.span = s
ErrorOf(id) == CHOOSE e \in Errors \cup {NoError} : e.id = id

\* C1: when the with-block of trace_call ends without raising, trace_call
\* sets the status to OK exactly when it is still UNSET at that point, and a
\* status set inside the block is the finished span's status: ERROR with
\* "Our error exhibit" stays ERROR with that description.
C1_NormalExitKeepsStatus ==
    [][\A s \in SpanIds : NormalExitOf(s) =>
          /\ (last'.calls = <<SdkCall("set_status", StatusOk, 0)>>)
                <=> (spans[s].status.status_code = "UNSET")
          /\ last'.calls # <<>> => spans[s].status.status_code = "UNSET"
          /\ spans'[s].status =
                IF spans[s].status.status_code = "UNSET" THEN StatusOk
                ELSE spans[s].status
          /\ spans'[s].ended]_vars

\* C1's case: the block set ERROR "Our error exhibit", ended normally, and the
\* span is finished with that status.
C1_Witness ==
    /\ last.op = "trace_call.exit"
    /\ last.raised = ""
    /\ last.calls = <<>>
    /\ spans[last.span].ended
    /\ spans[last.span].status = Status("ERROR", "Our error exhibit")
    /\ last.span \in Exported(GLOBAL_PROVIDER)

\* C5: without the tracing capability every public function returns None or
\* does nothing, and none raises, whatever it is given.
C5_AbsentIsNoOp ==
    ~HAS_OPENTELEMETRY_INSTALLED =>
        /\ last.raised = ""
        /\ last.ret = "None"
        /\ last.calls = <<>>

\* C7: no operation of the module moves a span's status from ERROR to OK: a
\* status changes only from UNSET to OK, from UNSET to ERROR, or from ERROR to
\* ERROR.
C7_StatusTransitions ==
    [][\A s \in SpanIds :
          LET before == spans[s].status.status_code
              after == spans'[s].status.status_code
          IN  \/ spans'[s].status = spans[s].status
              \/ before = "UNSET" /\ after \in {"OK", "ERROR"}
              \/ before = "ERROR" /\ after = "ERROR"]_vars

\* C8: the finalizer invoked without exception info sets OK only when no
\* status is set, then ends the scope: a status set to ERROR before it is
\* invoked is still ERROR afterwards.
C8_FinalizerKeepsStatus ==
    [][\A s \in SpanIds : (DiscardOf(s) /\ last'.input = 0) =>
          /\ spans'[s].status =
                IF spans[s].status.status_code = "UNSET" THEN StatusOk
                ELSE spans[s].status
          /\ spans'[s].ended
          /\ ~spans'[s].attached]_vars

\* what an error leaving the with-block must leave behind when trace_call
\* handles it: one set_status(ERROR, str(error)) by this module and nothing
\* else, the status it gives, and the same error going on to the caller
HandledAsError(s) ==
    /\ last'.calls = <<SdkCall("set_status",
                               Status("ERROR", Str(ErrorOf(last'.input))), 0)>>
    /\ spans'[s].status =
          IF spans[s].status.status_code = "OK" THEN spans[s].status
          ELSE Status("ERROR", Str(ErrorOf(last'.input)))
    /\ last'.exc = last'.input

\* C9 as claimed: whatever the with-block raises, this module sets ERROR with
\* the error's message once, does not record the exception itself, and the
\* same error reaches the caller.
C9_AsClaimed ==
    [][\A s \in SpanIds : RaisedExitOf(s) => HandledAsError(s)]_vars

\* C9, amended: so it is for an error of class Exception; an error that is
\* only a BaseException reaches the caller unchanged too, and this module
\* makes no call on the span for it.
C9_ExceptionSetsErrorOnce ==
    [][\A s \in SpanIds : RaisedExitOf(s) =>
          IF ErrorOf(last'.input).cls = "Exception"
          THEN HandledAsError(s)
          ELSE /\ last'.calls = <<>>
               /\ spans'[s].status = spans[s].status
               /\ last'.exc = last'.input]_vars

\* C9's case: the block raised an Exception, the span is finished with ERROR
\* and the error's message, and that error left trace_call.
C9_Witness ==
    /\ last.op = "trace_call.exit"
    /\ last.raised = "propagated"
    /\ ErrorOf(last.input).cls = "Exception"
    /\ last.exc = last.input
    /\ Len(last.calls) = 1
    /\ spans[last.span].ended
    /\ spans[last.span].status = Status("ERROR", "Our error exhibit")

\* the step just taken is a wrapper's call that may not start a span
NullStart ==
    /\ last'.op \in {"trace_call", "trace_call_end_lazily"}
    /\ last'.args.name = "" \/ ~HAS_OPENTELEMETRY_INSTALLED

\* C10: a span of trace_call is ended, and the span active before it active
\* again, once its block is left, normally or by an error; a span of
\* trace_call_end_lazily is the active span when it is started, stays open
\* with its scope entered through every step but its finalizer's call, and is
\* ended, with the span active before it restored, by that call, with or
\* without exception info; with an empty name or without the tracing
\* capability the wrappers give None and start no span.
C10_SpanEndsWithItsWrapper ==
    [][/\ \A s \in SpanIds :
             /\ (NormalExitOf(s) \/ RaisedExitOf(s) \/ DiscardOf(s)) =>
                   /\ spans'[s].ended
                   /\ ~spans'[s].attached
                   /\ current' = spans[s].prev
             /\ (Pending(s) /\ ~DiscardOf(s)) =>
                   /\ ~spans'[s].ended
                   /\ spans'[s].attached
       /\ (last'.ret = "discard" /\ last' # last) =>
             /\ Len(spans') = Len(spans) + 1
             /\ last'.span = Len(spans')
             /\ spans'[last'.span].wrapper = "trace_call_end_lazily"
             /\ spans'[last'.span].attached
             /\ ~spans'[last'.span].ended
             /\ current' = last'.span
             /\ spans'[last'.span].prev = current
       /\ NullStart =>
             /\ last'.ret = "None"
             /\ spans' = spans
             /\ current' = current]_vars

\* C10's case: a lazily ended span started inside a with-block has had its
\* finalizer invoked: it is ended and the block's span, still open, is the
\* active one again.
C10_Witness ==
    /\ last.op = "discard"
    /\ spans[last.span].ended
    /\ spans[last.span].prev \in SpanIds
    /\ spans[spans[last.span].prev].wrapper = "trace_call"
    /\ ~spans[spans[last.span].prev].ended
    /\ current = spans[last.span].prev

====
